---- MODULE Spec2Model ----
(***************************************************************************)
(* Model of the t3rn verification Portal (pallets/portal/src/lib.rs) and   *)
(* of the side-effect lifecycle types (primitives/src/side_effect/mod.rs). *)
(*                                                                         *)
(* Spec     : the Portal router.  One action per Portal operation; every   *)
(*            action is the whole handler.  The light-client capabilities, *)
(*            the chain directory (Xdns) and the recoder are external:     *)
(*            what they return is a nondeterministic choice, and every     *)
(*            invocation of them is recorded.                              *)
(* SpecSfx  : confirmation and hardening of a FullSideEffect.               *)
(* SpecBid  : bids and the accessors that expect their optional fields.    *)
(***************************************************************************)
EXTENDS Integers, Sequences, FiniteSets, TLC

VARIABLES
    lightClients,   \* T::LightClients::get(): Vec<(GatewayVendor, Box<dyn LightClient>)>
    xdns,           \* the chain directory: ChainId -> vendor, or no record
    op,             \* the operation called last, with the caller's arguments
    xdnsReads,      \* the directory's answers to the lookups the operation called last made
    lcCalls,        \* capability invocations made by the operation called last
    recodeCalls,    \* recode_bytes_with_descriptor invocations made by it
    ret,            \* what the operation returned to its caller
    fsx,            \* a FullSideEffect
    sfxOp,          \* the side-effect operation applied last
    sfxOut          \* its result

portalVars == <<lightClients, xdns, op, xdnsReads, lcCalls, recodeCalls, ret>>
sfxVars == <<fsx, sfxOp, sfxOut>>
vars == <<lightClients, xdns, op, xdnsReads, lcCalls, recodeCalls, ret, fsx, sfxOp, sfxOut>>

-----------------------------------------------------------------------------
(* Bounds *)

\* the longest configured LightClients list
MaxLightClients == 2

\* the largest balance (prize, bid, insurance, bond, cost)
MaxBalance == 1

-----------------------------------------------------------------------------
(* Values *)

Ok(v) == [ok |-> TRUE, val |-> v]
Err(e) == [ok |-> FALSE, err |-> e]

None == <<>>
Some(x) == <<x>>
Option(S) == {None} \cup {Some(x) : x \in S}

Unit == "()"

\* GatewayVendor, a closed enumeration
GatewayVendor == {"Rococo", "Kusama", "Polkadot", "Ethereum"}

\* Codec
Codec == {"Scale", "Rlp"}

\* ChainId = [u8; 4]: two chain instances
ChainId == {"gw_a", "gw_b"}

\* the directory's answer for a chain id
NoRecord == "NoRecord"
DirectoryAnswer == GatewayVendor \cup {NoRecord}

\* OriginFor<T>: a signed account, the root origin, or no origin
Origins == {<<"Signed", "alice">>, <<"Root">>, <<"None">>}

\* opaque byte payloads: headers, registration data, proofs, verified payloads
Bytes == {<<1>>, <<2, 3>>}

\* ABI descriptors, and the payloads the recoder produces
Descriptors == {<<4>>}
Recoded == {<<5>>}

\* T::BlockNumber / u32 samples
Heights == {7}

\* a failure of a light-client capability, and of the recoder
CapabilityError == "CapabilityError"
RecodeError == "RecodeError"

\* what a capability / the recoder may return, per result type
ReturnsOf(S) == {Ok(v) : v \in S} \cup {Err(CapabilityError)}
RecodeReturns == {Ok(b) : b \in Recoded} \cup {Err(RecodeError)}

\* the configured registries: lists of (vendor, capability), capabilities
\* named by the vendor they implement, one entry per vendor (spec 4.1)
RECURSIVE SeqsUpTo(_, _)
SeqsUpTo(S, n) ==
    IF n = 0 THEN {<<>>}
    ELSE LET shorter == SeqsUpTo(S, n - 1) IN
         shorter \cup {Append(s, x) : s \in {t \in shorter : Len(t) = n - 1}, x \in S}

LightClientOf(v) == <<v, <<"lc", v>>>>

Registries ==
    {s \in SeqsUpTo({LightClientOf(v) : v \in GatewayVendor}, MaxLightClients) :
        \A i, j \in DOMAIN s : i # j => s[i][1] # s[j][1]}

-----------------------------------------------------------------------------
(* Routing *)

\* a variant: the root origin passes as well (ensure_signed_or_root)
ensure_signed_or_root(origin) ==
    IF origin[1] \in {"Signed", "Root"} THEN Ok(origin) ELSE Err("BadOrigin")

\* frame_system::ensure_signed
ensure_signed(origin) ==
    IF origin[1] = "Signed" THEN Ok(origin[2]) ELSE Err("BadOrigin")

\* Xdns::get_verification_vendor
get_verification_vendor(gateway_id) ==
    IF xdns[gateway_id] = NoRecord THEN Err("XdnsRecordNotFound") ELSE Ok(xdns[gateway_id])

\* a variant: every vendor is taken to speak Scale
match_vendor_with_scale(vendor) == "Scale"

match_vendor_with_codec(vendor) ==
    CASE vendor = "Rococo" -> "Scale"
      [] vendor = "Kusama" -> "Scale"
      [] vendor = "Polkadot" -> "Scale"
      [] vendor = "Ethereum" -> "Rlp"

\* a variant: `.find(|_| true)`, the first configured light client whatever its vendor
match_light_client_first(vendor) ==
    IF lightClients = <<>> THEN Err("UnimplementedGatewayVendor")
    ELSE Ok(lightClients[1][2])

\* a variant: a vendor with no entry falls back to the first configured light client
match_light_client_or_first(vendor) ==
    LET found == {i \in DOMAIN lightClients : lightClients[i][1] = vendor} IN
    IF found = {}
    THEN IF lightClients = <<>> THEN Err("UnimplementedGatewayVendor")
         ELSE Ok(lightClients[1][2])
    ELSE Ok(lightClients[CHOOSE i \in found : \A j \in found : i <= j][2])

match_light_client_by_vendor(vendor) ==
    LET found == {i \in DOMAIN lightClients : lightClients[i][1] = vendor} IN
    IF found = {} THEN Err("UnimplementedGatewayVendor")
    ELSE Ok(lightClients[CHOOSE i \in found : \A j \in found : i <= j][2])

\* a variant: `.unwrap_or_default()` in place of `.map_err(..)?`, a chain id the
\* directory does not know is routed as the first vendor of the enumeration
match_light_client_by_gateway_id_or_default(gateway_id) ==
    LET vendor == get_verification_vendor(gateway_id) IN
    IF ~vendor.ok THEN match_light_client_by_vendor("Rococo")
    ELSE match_light_client_by_vendor(vendor.val)

match_light_client_by_gateway_id(gateway_id) ==
    LET vendor == get_verification_vendor(gateway_id) IN
    IF ~vendor.ok THEN Err("GatewayVendorNotFound")
    ELSE match_light_client_by_vendor(vendor.val)

\* no call is in progress and none is waiting to be taken by its caller
Idle == [name |-> "Idle"]

\* the record of a call: the entry point, the caller's arguments, and what the
\* directory holds for the chain id as the call is made
Called(name, gateway_id, args) ==
    [name |-> name, gateway_id |-> gateway_id, args |-> args, directory |-> xdns[gateway_id]]

\* one invocation of a capability operation
Call(lc, fn, args, r) == [lc |-> lc, fn |-> fn, args |-> args, ret |-> r]

\* `match_light_client_by_gateway_id(gateway_id)?.fn(args)`: the common body
\* of the forwarding operations
Forward(name, fn, gateway_id, callerArgs, lcArgs, Returns) ==
    LET lc == match_light_client_by_gateway_id(gateway_id) IN
    /\ op = Idle
    /\ op' = Called(name, gateway_id, callerArgs)
    /\ xdnsReads' = <<get_verification_vendor(gateway_id)>>
    /\ recodeCalls' = <<>>
    /\ IF ~lc.ok
       THEN /\ lcCalls' = <<>>
            /\ ret' = lc
       ELSE \E r \in Returns :
            /\ lcCalls' = <<Call(lc.val, fn, lcArgs, r)>>
            /\ ret' = r
    /\ UNCHANGED <<lightClients, xdns>>

-----------------------------------------------------------------------------
(* The dispatchable *)

submit_headers ==
    \E origin \in Origins, gateway_id \in ChainId, encoded_header_data \in Bytes :
        LET who == ensure_signed(origin)
            args == [origin |-> origin, encoded_header_data |-> encoded_header_data]
        IN
        IF ~who.ok
        THEN /\ op = Idle
             /\ op' = Called("submit_headers", gateway_id, args)
             /\ xdnsReads' = <<>>
             /\ lcCalls' = <<>>
             /\ recodeCalls' = <<>>
             /\ ret' = who
             /\ UNCHANGED <<lightClients, xdns>>
        ELSE Forward("submit_headers", "submit_headers", gateway_id, args, args,
                     ReturnsOf({Unit}))

-----------------------------------------------------------------------------
(* impl Portal for Pallet *)

get_latest_finalized_header ==
    \E gateway_id \in ChainId :
        Forward("get_latest_finalized_header", "get_latest_finalized_header",
                gateway_id, <<>>, <<>>, ReturnsOf(Option(Bytes)))

get_latest_finalized_height ==
    \E gateway_id \in ChainId :
        Forward("get_latest_finalized_height", "get_latest_finalized_height",
                gateway_id, <<>>, <<>>, ReturnsOf(Option(Heights)))

get_latest_updated_height ==
    \E gateway_id \in ChainId :
        Forward("get_latest_updated_height", "get_latest_updated_height",
                gateway_id, <<>>, <<>>, ReturnsOf(Option(Heights)))

get_current_epoch ==
    \E gateway_id \in ChainId :
        Forward("get_current_epoch", "get_current_epoch",
                gateway_id, <<>>, <<>>, ReturnsOf(Option(Heights)))

read_fast_confirmation_offset ==
    \E gateway_id \in ChainId :
        Forward("read_fast_confirmation_offset", "read_fast_confirmation_offset",
                gateway_id, <<>>, <<>>, ReturnsOf(Heights))

read_rational_confirmation_offset ==
    \E gateway_id \in ChainId :
        Forward("read_rational_confirmation_offset", "read_rational_confirmation_offset",
                gateway_id, <<>>, <<>>, ReturnsOf(Heights))

read_epoch_offset ==
    \E gateway_id \in ChainId :
        Forward("read_epoch_offset", "read_epoch_offset",
                gateway_id, <<>>, <<>>, ReturnsOf(Heights))

\* the arguments of the three inclusion verifications
VerifyArgs(gateway_id, message, submission_target_height) ==
    [gateway_id |-> gateway_id, message |-> message,
     submission_target_height |-> submission_target_height]

verify_event_inclusion ==
    \E gateway_id \in ChainId, message \in Bytes, submission_target_height \in Option(Heights) :
        LET args == VerifyArgs(gateway_id, message, submission_target_height) IN
        Forward("verify_event_inclusion", "verify_event_inclusion",
                gateway_id, args, args, ReturnsOf(Bytes))

verify_state_inclusion ==
    \E gateway_id \in ChainId, message \in Bytes, submission_target_height \in Option(Heights) :
        LET args == VerifyArgs(gateway_id, message, submission_target_height) IN
        Forward("verify_state_inclusion", "verify_state_inclusion",
                gateway_id, args, args, ReturnsOf(Bytes))

verify_tx_inclusion ==
    \E gateway_id \in ChainId, message \in Bytes, submission_target_height \in Option(Heights) :
        LET args == VerifyArgs(gateway_id, message, submission_target_height) IN
        Forward("verify_tx_inclusion", "verify_tx_inclusion",
                gateway_id, args, args, ReturnsOf(Bytes))

initialize ==
    \E origin \in Origins, gateway_id \in ChainId, encoded_registration_data \in Bytes :
        LET args == [origin |-> origin, gateway_id |-> gateway_id,
                     encoded_registration_data |-> encoded_registration_data] IN
        Forward("initialize", "initialize", gateway_id, args, args, ReturnsOf({Unit}))

turn_on ==
    \E origin \in Origins, gateway_id \in ChainId :
        Forward("turn_on", "turn_on", gateway_id,
                [origin |-> origin], [origin |-> origin], ReturnsOf(BOOLEAN))

turn_off ==
    \E origin \in Origins, gateway_id \in ChainId :
        Forward("turn_off", "turn_off", gateway_id,
                [origin |-> origin], [origin |-> origin], ReturnsOf(BOOLEAN))

\* the arguments of the three verify-and-recode operations
RecodeArgs(gateway_id, message, submission_target_height, abi_descriptor, out_codec) ==
    [gateway_id |-> gateway_id, message |-> message,
     submission_target_height |-> submission_target_height,
     abi_descriptor |-> abi_descriptor, out_codec |-> out_codec]

\* one invocation of recode_bytes_with_descriptor
Recode(encoded_ingress, abi_descriptor, in_codec, out_codec, r) ==
    [bytes |-> encoded_ingress, abi_descriptor |-> abi_descriptor,
     in_codec |-> in_codec, out_codec |-> out_codec, ret |-> r]

\* a variant: the unverified message is recoded
recode_input_message(encoded_ingress, message) == message

\* the bytes handed to the recoder
recode_input(encoded_ingress, message) == encoded_ingress

\* the common body of verify_{state,tx,event}_inclusion_and_recode:
\*   let encoded_ingress = Self::verify_*_inclusion(gateway_id, message, height)?;
\*   let in_codec = match_vendor_with_codec(Xdns::get_verification_vendor(&gateway_id)
\*       .map_err(|_| GatewayVendorNotFound)?);
\*   recode_bytes_with_descriptor(encoded_ingress, abi_descriptor, in_codec, out_codec)
\* The capability runs between the two directory lookups and is opaque: the
\* directory's second answer is any answer (xdns' records it).
VerifyAndRecode(name, verifyFn, gateway_id, message, height, abi_descriptor, out_codec) ==
    LET lc == match_light_client_by_gateway_id(gateway_id)
        first == get_verification_vendor(gateway_id)
        vargs == VerifyArgs(gateway_id, message, height)
    IN
    /\ op = Idle
    /\ op' = Called(name, gateway_id,
                    RecodeArgs(gateway_id, message, height, abi_descriptor, out_codec))
    /\ UNCHANGED lightClients
    /\ IF ~lc.ok
       THEN /\ xdnsReads' = <<first>>
            /\ lcCalls' = <<>>
            /\ recodeCalls' = <<>>
            /\ ret' = lc
            /\ UNCHANGED xdns
       ELSE \E verified \in ReturnsOf(Bytes) :
            /\ lcCalls' = <<Call(lc.val, verifyFn, vargs, verified)>>
            /\ IF ~verified.ok
               THEN /\ xdnsReads' = <<first>>
                    /\ recodeCalls' = <<>>
                    /\ ret' = verified
                    /\ UNCHANGED xdns
               ELSE \E answer \in DirectoryAnswer :
                    /\ xdns' = [xdns EXCEPT ![gateway_id] = answer]
                    /\ xdnsReads' = <<first, IF answer = NoRecord
                                              THEN Err("XdnsRecordNotFound")
                                              ELSE Ok(answer)>>
                    /\ IF answer = NoRecord
                       THEN /\ recodeCalls' = <<>>
                            /\ ret' = Err("GatewayVendorNotFound")
                       ELSE \E recoded \in RecodeReturns :
                            /\ recodeCalls' = <<Recode(recode_input(verified.val, message),
                                                       abi_descriptor,
                                                       match_vendor_with_codec(answer),
                                                       out_codec, recoded)>>
                            /\ ret' = recoded

verify_state_inclusion_and_recode ==
    \E gateway_id \in ChainId, message \in Bytes, submission_target_height \in Option(Heights),
       abi_descriptor \in Descriptors, out_codec \in Codec :
        VerifyAndRecode("verify_state_inclusion_and_recode", "verify_state_inclusion",
                        gateway_id, message, submission_target_height,
                        abi_descriptor, out_codec)

verify_tx_inclusion_and_recode ==
    \E gateway_id \in ChainId, message \in Bytes, submission_target_height \in Option(Heights),
       abi_descriptor \in Descriptors, out_codec \in Codec :
        VerifyAndRecode("verify_tx_inclusion_and_recode", "verify_tx_inclusion",
                        gateway_id, message, submission_target_height,
                        abi_descriptor, out_codec)

verify_event_inclusion_and_recode ==
    \E gateway_id \in ChainId, message \in Bytes, submission_target_height \in Option(Heights),
       abi_descriptor \in Descriptors, out_codec \in Codec :
        VerifyAndRecode("verify_event_inclusion_and_recode", "verify_event_inclusion",
                        gateway_id, message, submission_target_height,
                        abi_descriptor, out_codec)

-----------------------------------------------------------------------------
(* The environment: the directory gains, changes or loses a record *)

XdnsSet ==
    \E gateway_id \in ChainId, answer \in DirectoryAnswer :
        /\ op = Idle
        /\ answer # xdns[gateway_id]
        /\ xdns' = [xdns EXCEPT ![gateway_id] = answer]
        /\ UNCHANGED <<lightClients, op, xdnsReads, lcCalls, recodeCalls, ret>>

\* the caller takes the result of the call; every call is a transaction of its
\* own (spec 5), so the next call starts from a clean record
Return ==
    /\ op # Idle
    /\ op' = Idle
    /\ xdnsReads' = <<>>
    /\ lcCalls' = <<>>
    /\ recodeCalls' = <<>>
    /\ ret' = Ok(Unit)
    /\ UNCHANGED <<lightClients, xdns>>

-----------------------------------------------------------------------------
(* The Portal specification *)

\* the side-effect model is at rest while the Portal runs
NoSfxOp == [name |-> "none", bid_from |-> "none"]

Init ==
    /\ lightClients \in Registries
    /\ xdns = [c \in ChainId |-> NoRecord]
    /\ op = Idle
    /\ xdnsReads = <<>>
    /\ lcCalls = <<>>
    /\ recodeCalls = <<>>
    /\ ret = Ok(Unit)
    /\ fsx = None
    /\ sfxOp = NoSfxOp
    /\ sfxOut = None

Next ==
    \/ submit_headers /\ UNCHANGED sfxVars
    \/ get_latest_finalized_header /\ UNCHANGED sfxVars
    \/ get_latest_finalized_height /\ UNCHANGED sfxVars
    \/ get_latest_updated_height /\ UNCHANGED sfxVars
    \/ get_current_epoch /\ UNCHANGED sfxVars
    \/ read_fast_confirmation_offset /\ UNCHANGED sfxVars
    \/ read_rational_confirmation_offset /\ UNCHANGED sfxVars
    \/ read_epoch_offset /\ UNCHANGED sfxVars
    \/ verify_event_inclusion /\ UNCHANGED sfxVars
    \/ verify_state_inclusion /\ UNCHANGED sfxVars
    \/ verify_tx_inclusion /\ UNCHANGED sfxVars
    \/ verify_state_inclusion_and_recode /\ UNCHANGED sfxVars
    \/ verify_tx_inclusion_and_recode /\ UNCHANGED sfxVars
    \/ verify_event_inclusion_and_recode /\ UNCHANGED sfxVars
    \/ initialize /\ UNCHANGED sfxVars
    \/ turn_on /\ UNCHANGED sfxVars
    \/ turn_off /\ UNCHANGED sfxVars
    \/ XdnsSet /\ UNCHANGED sfxVars
    \/ Return /\ UNCHANGED sfxVars

Spec == Init /\ [][Next]_vars

-----------------------------------------------------------------------------
(* The side-effect model: values *)

Panic(msg) == [panic |-> msg]
IsPanic(r) == "panic" \in DOMAIN r

Balance == 0 .. MaxBalance
AccountId == {"alice", "bob"}
BlockNumber == {1}

\* TargetId = [u8; 4]
TargetIdLen == 4
TargetIdDefault == <<0, 0, 0, 0>>
TargetIds == {TargetIdDefault, <<1, 1, 1, 1>>}

SecurityLvl == {"Dirty", "Optimistic"}

\* ConfirmationOutcome: the success outcome and the failure outcomes
ConfirmationOutcome == {"Success", "MisbehaviourMalformedValues", "TimedOut"}

\* encoded_action: empty, shorter than, exactly, and longer than a TargetId
EncodedActions == {<<>>, <<7>>, <<1, 2, 3, 4>>, <<1, 2, 3, 4, 5>>}

\* encoded_args: ordered lists of opaque arguments
EncodedArgs == {<<>>, <<<<1, 1>>, <<2>>>>, <<<<2>>, <<1, 1>>>>}

\* SideEffect
SideEffects ==
    [target : TargetIds, prize : Balance, ordered_at : {0},
     encoded_action : EncodedActions, encoded_args : EncodedArgs,
     signature : {<<>>}, enforce_executioner : {None}]

\* ConfirmedSideEffect
ConfirmedSideEffects ==
    [err : Option(ConfirmationOutcome), output : Option({<<>>, <<9>>}),
     inclusion_data : {<<>>}, executioner : AccountId, received_at : BlockNumber,
     cost : Option(Balance)]

\* SFXBid
SFXBids ==
    [bid : Balance, optimistic_insurance : Option(Balance),
     reserved_bond : Option(Balance), executor : AccountId, requester : AccountId]

\* FullSideEffect
FullSideEffect(input, confirmed, security_lvl, submission_target_height, best_bid) ==
    [input |-> input, confirmed |-> confirmed, security_lvl |-> security_lvl,
     submission_target_height |-> submission_target_height, best_bid |-> best_bid]

-----------------------------------------------------------------------------
(* The side-effect model: functions *)

new_none_optimistic(bid, executor, requester) ==
    [bid |-> bid, optimistic_insurance |-> None, reserved_bond |-> None,
     executor |-> executor, requester |-> requester]

\* a variant: `.unwrap_or_default()`, a zero bond stands in for an absent one
reserved_bond_or_default(self) ==
    IF self.reserved_bond # None THEN Ok(self.reserved_bond[1]) ELSE Ok(0)

expect_reserved_bond(self) ==
    IF self.reserved_bond # None THEN Ok(self.reserved_bond[1])
    ELSE Panic("Accessed reserved_bond  and expected it to be a part of SFXBid")

expect_insurance(self) ==
    IF self.optimistic_insurance # None THEN Ok(self.optimistic_insurance[1])
    ELSE Panic("Accessed optimistic_insurance  and expected it to be a part of SFXBid")

is_successfully_confirmed(self) ==
    /\ self.confirmed # None
    /\ self.confirmed[1].err = None

expect_sfx_bid(self) ==
    IF self.best_bid # None THEN Ok(self.best_bid[1])
    ELSE Panic("Accessed expected Bid and expected it to be a part of FSX")

\* a variant: a vector longer than four bytes is truncated instead of refused
TargetId_try_from_truncating(bytes) ==
    IF Len(bytes) >= TargetIdLen THEN Ok(SubSeq(bytes, 1, TargetIdLen))
    ELSE Err("TryFromSliceError")

\* TargetId::try_from(Vec<u8>): a vector of exactly four bytes converts
TargetId_try_from(bytes) ==
    IF Len(bytes) = TargetIdLen THEN Ok(bytes) ELSE Err("TryFromSliceError")

\* Result::unwrap_or_default for TargetId
unwrap_or_default(r) == IF r.ok THEN r.val ELSE TargetIdDefault

\* a variant: the realized cost is not carried over
try_into_without_cost(self) ==
    Ok([target |-> self.input.target,
        prize |-> self.input.prize,
        encoded_action |-> unwrap_or_default(TargetId_try_from(self.input.encoded_action)),
        encoded_args |-> self.input.encoded_args,
        encoded_args_abi |-> <<>>,
        security_lvl |-> self.security_lvl,
        confirmation_outcome |->
            IF self.confirmed = None THEN None ELSE self.confirmed[1].err,
        confirmed_executioner |->
            IF self.confirmed = None THEN None ELSE Some(self.confirmed[1].executioner),
        confirmed_received_at |->
            IF self.confirmed = None THEN None ELSE Some(self.confirmed[1].received_at),
        confirmed_cost |-> None])

\* a variant: the height is taken from the request, not from the confirmation
try_into_ordered_at(self) ==
    Ok([target |-> self.input.target,
        prize |-> self.input.prize,
        encoded_action |-> unwrap_or_default(TargetId_try_from(self.input.encoded_action)),
        encoded_args |-> self.input.encoded_args,
        encoded_args_abi |-> <<>>,
        security_lvl |-> self.security_lvl,
        confirmation_outcome |->
            IF self.confirmed = None THEN None ELSE self.confirmed[1].err,
        confirmed_executioner |->
            IF self.confirmed = None THEN None ELSE Some(self.confirmed[1].executioner),
        confirmed_received_at |->
            IF self.confirmed = None THEN None ELSE Some(self.input.ordered_at),
        confirmed_cost |->
            IF self.confirmed = None THEN None ELSE self.confirmed[1].cost])

\* TryInto<HardenedSideEffect> for FullSideEffect
try_into(self) ==
    Ok([target |-> self.input.target,
        prize |-> self.input.prize,
        encoded_action |-> unwrap_or_default(TargetId_try_from(self.input.encoded_action)),
        encoded_args |-> self.input.encoded_args,
        encoded_args_abi |-> <<>>,
        security_lvl |-> self.security_lvl,
        confirmation_outcome |->
            IF self.confirmed = None THEN None ELSE self.confirmed[1].err,
        confirmed_executioner |->
            IF self.confirmed = None THEN None ELSE Some(self.confirmed[1].executioner),
        confirmed_received_at |->
            IF self.confirmed = None THEN None ELSE Some(self.confirmed[1].received_at),
        confirmed_cost |->
            IF self.confirmed = None THEN None ELSE self.confirmed[1].cost])

\* the declared type of each field of the hardened record, and of the
\* optional fields of a confirmation
HardenedFieldTypes ==
    [target |-> "TargetId", prize |-> "BalanceOf", encoded_action |-> "TargetId",
     encoded_args |-> "Vec<Bytes>", encoded_args_abi |-> "Vec<Type>",
     security_lvl |-> "SecurityLvl",
     confirmation_outcome |-> "Option<ConfirmationOutcome>",
     confirmed_executioner |-> "Option<AccountId>",
     confirmed_received_at |-> "Option<BlockNumber>",
     confirmed_cost |-> "Option<BalanceOf>"]
ConfirmedOptionalFieldTypes ==
    [err |-> "Option<ConfirmationOutcome>", output |-> "Option<Bytes>",
     cost |-> "Option<BalanceOf>"]

-----------------------------------------------------------------------------
(* The side-effect model: confirmation and hardening of a FullSideEffect *)

SfxOp(name) == [name |-> name, bid_from |-> "none"]

\* a requester's SideEffect becomes a FullSideEffect, with or without a bid
Create ==
    \E input \in SideEffects, security_lvl \in SecurityLvl,
       best_bid \in {None, Some(new_none_optimistic(0, "bob", "alice"))} :
        /\ fsx = None
        /\ fsx' = Some(FullSideEffect(input, None, security_lvl,
                                      <<1, 0, 0, 0, 0, 0, 0, 0>>, best_bid))
        /\ sfxOp' = SfxOp("create")
        /\ sfxOut' = None
        /\ UNCHANGED portalVars

\* the FullSideEffect gains its confirmation, at most once
Confirm ==
    \E confirmed \in ConfirmedSideEffects :
        /\ fsx # None
        /\ fsx[1].confirmed = None
        /\ fsx' = Some([fsx[1] EXCEPT !.confirmed = Some(confirmed)])
        /\ sfxOp' = SfxOp("confirm")
        /\ sfxOut' = None
        /\ UNCHANGED portalVars

IsSuccessfullyConfirmed ==
    /\ fsx # None
    /\ sfxOp' = SfxOp("is_successfully_confirmed")
    /\ sfxOut' = is_successfully_confirmed(fsx[1])
    /\ UNCHANGED <<fsx, portalVars>>

Harden ==
    /\ fsx # None
    /\ sfxOp' = SfxOp("try_into")
    /\ sfxOut' = try_into(fsx[1])
    /\ UNCHANGED <<fsx, portalVars>>

InitSfx ==
    /\ lightClients = <<>>
    /\ xdns = [c \in ChainId |-> NoRecord]
    /\ op = Idle
    /\ xdnsReads = <<>>
    /\ lcCalls = <<>>
    /\ recodeCalls = <<>>
    /\ ret = Ok(Unit)
    /\ fsx = None
    /\ sfxOp = NoSfxOp
    /\ sfxOut = None

NextSfx ==
    \/ Create
    \/ Confirm
    \/ IsSuccessfullyConfirmed
    \/ Harden

SpecSfx == InitSfx /\ [][NextSfx]_vars

-----------------------------------------------------------------------------
(* The side-effect model: bids *)

\* a FullSideEffect waiting for its bid
Unbid ==
    FullSideEffect([target |-> TargetIdDefault, prize |-> MaxBalance, ordered_at |-> 0,
                    encoded_action |-> <<>>, encoded_args |-> <<>>, signature |-> <<>>,
                    enforce_executioner |-> None],
                   None, "Optimistic", <<1, 0, 0, 0, 0, 0, 0, 0>>, None)

\* a bid built by SFXBid::new_none_optimistic becomes the best bid
NewNoneOptimistic ==
    \E bid \in Balance, executor \in AccountId, requester \in AccountId :
        /\ fsx' = Some([fsx[1] EXCEPT
                          !.best_bid = Some(new_none_optimistic(bid, executor, requester))])
        /\ sfxOp' = [name |-> "new_none_optimistic", bid_from |-> "new_none_optimistic"]
        /\ sfxOut' = None
        /\ UNCHANGED portalVars

\* a bid built field by field becomes the best bid
PlaceBid ==
    \E bid \in SFXBids :
        /\ fsx' = Some([fsx[1] EXCEPT !.best_bid = Some(bid)])
        /\ sfxOp' = [name |-> "SFXBid", bid_from |-> "SFXBid"]
        /\ sfxOut' = None
        /\ UNCHANGED portalVars

ExpectSfxBid ==
    /\ sfxOp' = [sfxOp EXCEPT !.name = "expect_sfx_bid"]
    /\ sfxOut' = expect_sfx_bid(fsx[1])
    /\ UNCHANGED <<fsx, portalVars>>

ExpectReservedBond ==
    /\ fsx[1].best_bid # None
    /\ sfxOp' = [sfxOp EXCEPT !.name = "expect_reserved_bond"]
    /\ sfxOut' = expect_reserved_bond(fsx[1].best_bid[1])
    /\ UNCHANGED <<fsx, portalVars>>

ExpectInsurance ==
    /\ fsx[1].best_bid # None
    /\ sfxOp' = [sfxOp EXCEPT !.name = "expect_insurance"]
    /\ sfxOut' = expect_insurance(fsx[1].best_bid[1])
    /\ UNCHANGED <<fsx, portalVars>>

InitBid ==
    /\ lightClients = <<>>
    /\ xdns = [c \in ChainId |-> NoRecord]
    /\ op = Idle
    /\ xdnsReads = <<>>
    /\ lcCalls = <<>>
    /\ recodeCalls = <<>>
    /\ ret = Ok(Unit)
    /\ fsx = Some(Unbid)
    /\ sfxOp = NoSfxOp
    /\ sfxOut = None

NextBid ==
    \/ NewNoneOptimistic
    \/ PlaceBid
    \/ ExpectSfxBid
    \/ ExpectReservedBond
    \/ ExpectInsurance

SpecBid == InitBid /\ [][NextBid]_vars

-----------------------------------------------------------------------------
(* Properties of the side-effect model *)

\* C4: is_successfully_confirmed is true iff a confirmation exists and its
\* outcome denotes success, i.e. it carries no outcome at all or the outcome
\* Success; it is false without a confirmation and false on a failure outcome.
C4_AsClaimed ==
    sfxOp.name = "is_successfully_confirmed"
        => (sfxOut <=> /\ fsx[1].confirmed # None
                       /\ fsx[1].confirmed[1].err \in {None, Some("Success")})

\* C5, as stated: every optional field present on the confirmation (err,
\* output, cost) is held, with the same value, by a field of the hardened record.
C5_AsClaimed ==
    (sfxOp.name = "try_into" /\ fsx[1].confirmed # None)
        => /\ sfxOut.ok
           /\ \A f \in {"err", "output", "cost"} :
                fsx[1].confirmed[1][f] # None
                    => \E g \in DOMAIN sfxOut.val :
                         /\ HardenedFieldTypes[g] = ConfirmedOptionalFieldTypes[f]
                         /\ sfxOut.val[g] = fsx[1].confirmed[1][f]

\* C5, amended: err and cost, when present on the confirmation, are held with
\* the same value by confirmation_outcome and confirmed_cost; the output
\* payload is not carried over, the hardened record has no field for it.
C5_ErrAndCostCarried ==
    (sfxOp.name = "try_into" /\ fsx[1].confirmed # None)
        => /\ sfxOut.ok
           /\ DOMAIN sfxOut.val = DOMAIN HardenedFieldTypes
           /\ fsx[1].confirmed[1].err # None
                => sfxOut.val.confirmation_outcome = fsx[1].confirmed[1].err
           /\ fsx[1].confirmed[1].cost # None
                => sfxOut.val.confirmed_cost = fsx[1].confirmed[1].cost
           /\ \A g \in DOMAIN sfxOut.val :
                HardenedFieldTypes[g] # ConfirmedOptionalFieldTypes["output"]

\* C5: a confirmation with outcome, output and cost all present was hardened
C5_Witness ==
    /\ sfxOp.name = "try_into"
    /\ fsx[1].confirmed # None
    /\ fsx[1].confirmed[1].err = Some("TimedOut")
    /\ fsx[1].confirmed[1].output = Some(<<9>>)
    /\ fsx[1].confirmed[1].cost = Some(MaxBalance)
    /\ sfxOut.val.confirmed_cost = Some(MaxBalance)

\* C6: the hardened record has the input's target, prize and encoded_args
\* (same order, unmodified) and the FullSideEffect's security_lvl, an empty
\* encoded_args_abi, and the confirmation's err, executioner, received_at and
\* cost when a confirmation exists, all four absent otherwise.
C6_HardenedFields ==
    sfxOp.name = "try_into"
        => /\ sfxOut.ok
           /\ sfxOut.val.target = fsx[1].input.target
           /\ sfxOut.val.prize = fsx[1].input.prize
           /\ sfxOut.val.encoded_args = fsx[1].input.encoded_args
           /\ sfxOut.val.security_lvl = fsx[1].security_lvl
           /\ sfxOut.val.encoded_args_abi = <<>>
           /\ IF fsx[1].confirmed # None
              THEN /\ sfxOut.val.confirmation_outcome = fsx[1].confirmed[1].err
                   /\ sfxOut.val.confirmed_executioner = Some(fsx[1].confirmed[1].executioner)
                   /\ sfxOut.val.confirmed_received_at = Some(fsx[1].confirmed[1].received_at)
                   /\ sfxOut.val.confirmed_cost = fsx[1].confirmed[1].cost
              ELSE /\ sfxOut.val.confirmation_outcome = None
                   /\ sfxOut.val.confirmed_executioner = None
                   /\ sfxOut.val.confirmed_received_at = None
                   /\ sfxOut.val.confirmed_cost = None

\* C6: a confirmed side effect with two ordered arguments was hardened
C6_Witness ==
    /\ sfxOp.name = "try_into"
    /\ fsx[1].confirmed # None
    /\ fsx[1].input.encoded_args = <<<<2>>, <<1, 1>>>>
    /\ sfxOut.val.encoded_args = <<<<2>>, <<1, 1>>>>
    /\ sfxOut.val.confirmed_received_at = Some(1)
    /\ sfxOut.val.confirmed_executioner = Some("bob")

\* C10: each accessor returns the stored value when the optional field is
\* present and faults when it is absent, never returning a substitute; a bid
\* built by new_none_optimistic has insurance and bond absent, and both bid
\* accessors fault on it.
C10_AccessorsFailFast ==
    /\ sfxOp.name = "expect_sfx_bid"
         => IF fsx[1].best_bid # None
            THEN ~IsPanic(sfxOut) /\ sfxOut.val = fsx[1].best_bid[1]
            ELSE IsPanic(sfxOut)
    /\ sfxOp.name = "expect_reserved_bond"
         => IF fsx[1].best_bid[1].reserved_bond # None
            THEN ~IsPanic(sfxOut) /\ Some(sfxOut.val) = fsx[1].best_bid[1].reserved_bond
            ELSE IsPanic(sfxOut)
    /\ sfxOp.name = "expect_insurance"
         => IF fsx[1].best_bid[1].optimistic_insurance # None
            THEN ~IsPanic(sfxOut) /\ Some(sfxOut.val) = fsx[1].best_bid[1].optimistic_insurance
            ELSE IsPanic(sfxOut)
    /\ sfxOp.bid_from = "new_none_optimistic"
         => /\ fsx[1].best_bid[1].optimistic_insurance = None
            /\ fsx[1].best_bid[1].reserved_bond = None
            /\ sfxOp.name \in {"expect_reserved_bond", "expect_insurance"} => IsPanic(sfxOut)

\* C10: the bond of a bid built by new_none_optimistic was asked for
C10_Witness ==
    /\ sfxOp.name = "expect_reserved_bond"
    /\ sfxOp.bid_from = "new_none_optimistic"
    /\ IsPanic(sfxOut)

\* C11: hardening returns Ok for every FullSideEffect; the record's
\* encoded_action is the input's when that has exactly four bytes, and the
\* all-zero value for any other length (empty, shorter, longer), never an error.
C11_HardeningNeverAborts ==
    sfxOp.name = "try_into"
        => /\ sfxOut.ok
           /\ IF Len(fsx[1].input.encoded_action) = 4
              THEN sfxOut.val.encoded_action = fsx[1].input.encoded_action
              ELSE sfxOut.val.encoded_action = <<0, 0, 0, 0>>

\* C11: a side effect whose encoded_action has five bytes was hardened into
\* a record with the all-zero action
C11_Witness ==
    /\ sfxOp.name = "try_into"
    /\ Len(fsx[1].input.encoded_action) = 5
    /\ sfxOut.ok
    /\ sfxOut.val.encoded_action = <<0, 0, 0, 0>>

-----------------------------------------------------------------------------
(* Properties of the Portal *)

\* the operations that forward one call to the resolved capability
QueryOps ==
    {"get_latest_finalized_header", "get_latest_finalized_height",
     "get_latest_updated_height", "get_current_epoch", "read_fast_confirmation_offset",
     "read_rational_confirmation_offset", "read_epoch_offset"}
VerifyOps == {"verify_event_inclusion", "verify_state_inclusion", "verify_tx_inclusion"}
ControlOps == {"initialize", "turn_on", "turn_off"}
TraitForwardingOps == QueryOps \cup VerifyOps \cup ControlOps
RecodeOps ==
    {"verify_event_inclusion_and_recode", "verify_state_inclusion_and_recode",
     "verify_tx_inclusion_and_recode"}
ListedOps == {"submit_headers"} \cup TraitForwardingOps

\* the verification a verify-and-recode operation is built on
MatchingVerify(name) ==
    CASE name = "verify_event_inclusion_and_recode" -> "verify_event_inclusion"
      [] name = "verify_state_inclusion_and_recode" -> "verify_state_inclusion"
      [] name = "verify_tx_inclusion_and_recode" -> "verify_tx_inclusion"

\* the call was made for a chain id the directory had no record of
Unknown(o) == o.directory = NoRecord
\* the vendor has an entry in the configured list
Registered(v) == \E i \in DOMAIN lightClients : lightClients[i][1] = v
\* the call was made for a chain id whose vendor has no configured light client
Unimplemented(o) == o.directory \in GatewayVendor /\ ~Registered(o.directory)
\* the call was made for a chain id whose vendor has a configured light client
Routed(o) == o.directory \in GatewayVendor /\ Registered(o.directory)
\* submit_headers called by an origin that is not signed
Unsigned(o) == o.name = "submit_headers" /\ o.args.origin[1] # "Signed"
Failed(r, e) == ~r.ok /\ r.err = e

\* C1, as stated: every listed operation called with a chain id the
\* directory does not know fails with GatewayVendorNotFound and invokes no
\* capability operation.
C1_AsClaimed ==
    (op.name \in ListedOps /\ Unknown(op))
        => (Failed(ret, "GatewayVendorNotFound") /\ lcCalls = <<>>)

\* C1, amended: the same, except that submit_headers called by an origin that
\* is not signed fails with BadOrigin before the directory is consulted; no
\* capability operation is invoked in either case, whatever the registry holds.
C1_VendorNotFound ==
    (op.name \in ListedOps /\ Unknown(op))
        => /\ lcCalls = <<>>
           /\ IF Unsigned(op) THEN Failed(ret, "BadOrigin")
              ELSE Failed(ret, "GatewayVendorNotFound")

\* C1: a verification was called for an unknown chain id while a light
\* client for the default vendor is configured
C1_Witness ==
    /\ op.name = "verify_event_inclusion"
    /\ Unknown(op)
    /\ Registered("Rococo")
    /\ Failed(ret, "GatewayVendorNotFound")

\* C2, as stated: every operation called with a chain id whose vendor the
\* directory resolves but no light client is configured for fails with
\* UnimplementedGatewayVendor, invokes nothing and changes no state.
C2_AsClaimed ==
    [][(op = Idle /\ op' # Idle /\ Unimplemented(op'))
          => /\ Failed(ret', "UnimplementedGatewayVendor")
             /\ lcCalls' = <<>> /\ recodeCalls' = <<>>
             /\ xdns' = xdns /\ lightClients' = lightClients]_vars

\* C2, amended: the same, except that submit_headers called by an origin that
\* is not signed fails with BadOrigin instead (also without any side effect).
C2_Unimplemented ==
    [][(op = Idle /\ op' # Idle /\ Unimplemented(op'))
          => /\ IF Unsigned(op') THEN Failed(ret', "BadOrigin")
                ELSE Failed(ret', "UnimplementedGatewayVendor")
             /\ lcCalls' = <<>> /\ recodeCalls' = <<>>
             /\ xdns' = xdns /\ lightClients' = lightClients]_vars

\* C2: turn_on was called for a chain id of a vendor without a light client,
\* while light clients of other vendors are configured
C2_Witness ==
    /\ op.name = "turn_on"
    /\ Unimplemented(op)
    /\ Len(lightClients) = MaxLightClients
    /\ Failed(ret, "UnimplementedGatewayVendor")

C7_VerifyThenRecode ==
    op.name \in RecodeOps
        => /\ Len(lcCalls) <= 1 /\ Len(recodeCalls) <= 1
           /\ lcCalls = <<>>
                 => /\ recodeCalls = <<>>
                    /\ ~Routed(op)
                    /\ IF Unknown(op) THEN Failed(ret, "GatewayVendorNotFound")
                       ELSE Failed(ret, "UnimplementedGatewayVendor")
           /\ lcCalls # <<>>
                 => /\ Routed(op)
                    /\ lcCalls[1].fn = MatchingVerify(op.name)
                    /\ lcCalls[1].lc = <<"lc", op.directory>>
                    /\ lcCalls[1].args =
                         [gateway_id |-> op.gateway_id, message |-> op.args.message,
                          submission_target_height |-> op.args.submission_target_height]
                    /\ ~lcCalls[1].ret.ok => (recodeCalls = <<>> /\ ret = lcCalls[1].ret)
                    /\ (lcCalls[1].ret.ok /\ recodeCalls = <<>>)
                         => /\ Len(xdnsReads) = 2 /\ ~xdnsReads[2].ok
                            /\ Failed(ret, "GatewayVendorNotFound")
           /\ recodeCalls # <<>>
                 => /\ lcCalls # <<>> /\ lcCalls[1].ret.ok
                    /\ recodeCalls[1].bytes = lcCalls[1].ret.val
                    /\ recodeCalls[1].abi_descriptor = op.args.abi_descriptor
                    /\ recodeCalls[1].out_codec = op.args.out_codec
                    /\ ret = recodeCalls[1].ret

\* C7: the verification succeeded, its bytes differ from the message, and the
\* recoder failed
C7_Witness ==
    /\ op.name = "verify_tx_inclusion_and_recode"
    /\ recodeCalls # <<>>
    /\ lcCalls[1].ret.val # op.args.message
    /\ Failed(ret, RecodeError)

\* C8: submit_headers called by an origin that is not signed fails before the
\* directory is consulted and before any capability is invoked; called by a
\* signed origin it returns Ok iff routing succeeds and the resolved
\* capability's submit_headers returns Ok, and otherwise returns the routing
\* error or the capability's error.
C8_SubmitHeaders ==
    op.name = "submit_headers"
        => IF op.args.origin[1] # "Signed"
           THEN ~ret.ok /\ xdnsReads = <<>> /\ lcCalls = <<>>
           ELSE /\ Len(xdnsReads) = 1
                /\ Unknown(op) => (Failed(ret, "GatewayVendorNotFound") /\ lcCalls = <<>>)
                /\ Unimplemented(op)
                      => (Failed(ret, "UnimplementedGatewayVendor") /\ lcCalls = <<>>)
                /\ Routed(op)
                      => /\ Len(lcCalls) = 1
                         /\ lcCalls[1].fn = "submit_headers"
                         /\ lcCalls[1].lc = <<"lc", op.directory>>
                         /\ lcCalls[1].args = op.args
                         /\ ret.ok <=> lcCalls[1].ret.ok
                         /\ ~ret.ok => ret = lcCalls[1].ret
                /\ ret.ok => (Routed(op) /\ ret.val = Unit)

\* C8: the root origin submitted headers for a chain id that routes to a
\* configured light client
C8_Witness ==
    /\ op.name = "submit_headers"
    /\ op.args.origin = <<"Root">>
    /\ Routed(op)
    /\ Failed(ret, "BadOrigin")

\* the directory gave the same answer for the chain id throughout the call
DirectoryStable == xdns[op.gateway_id] = op.directory

\* C12: in a verify-and-recode call during which the directory's answer for
\* the chain id does not change, the codec handed to recode as the source
\* codec is the fixed codec of the vendor whose capability verified the bytes
\* (Rococo, Kusama, Polkadot: Scale; Ethereum: Rlp), and after a successful
\* verification the second vendor resolution succeeds: the call does not fail
\* with GatewayVendorNotFound and recode is reached.
C12_SourceCodecOfTheVerifyingVendor ==
    (op.name \in RecodeOps /\ DirectoryStable)
        => /\ recodeCalls # <<>>
                 => /\ lcCalls # <<>>
                    /\ lcCalls[1].lc[2] \in {"Rococo", "Kusama", "Polkadot"}
                          => recodeCalls[1].in_codec = "Scale"
                    /\ lcCalls[1].lc[2] = "Ethereum"
                          => recodeCalls[1].in_codec = "Rlp"
           /\ (lcCalls # <<>> /\ lcCalls[1].ret.ok)
                 => /\ Len(xdnsReads) = 2
                    /\ xdnsReads[2].ok
                    /\ recodeCalls # <<>>
                    /\ ~Failed(ret, "GatewayVendorNotFound")

\* C12: the Ethereum light client verified the bytes, the directory did not
\* change, and recode was handed Rlp as the source codec
C12_Witness ==
    /\ op.name = "verify_state_inclusion_and_recode"
    /\ DirectoryStable
    /\ lcCalls # <<>>
    /\ lcCalls[1].lc = <<"lc", "Ethereum">>
    /\ recodeCalls # <<>>
    /\ recodeCalls[1].in_codec = "Rlp"

\* the same without the assumption: violated, a directory that changes while
\* the capability runs makes the second resolution fail or name another vendor
SourceCodecWhateverTheDirectoryDoes ==
    op.name \in RecodeOps
        => /\ recodeCalls # <<>>
                 => (lcCalls[1].lc[2] = "Ethereum" <=> recodeCalls[1].in_codec = "Rlp")
           /\ (lcCalls # <<>> /\ lcCalls[1].ret.ok) => recodeCalls # <<>>

====
